---------------------------- MODULE Spec2Model ----------------------------
(***************************************************************************)
(* PlayStation2Plugin (src/plugin.py): play sessions, the game_times.json  *)
(* ledger, the periodic tick and the tasks it creates.                     *)
(*                                                                         *)
(* Threads.  The asyncio event loop (the control thread) runs the public   *)
(* entry points, tick and the non-awaiting parts of every task.  The       *)
(* default executor (the worker context) runs _local_games_list and        *)
(* _get_games_times_dict on behalf of the tasks.  A handler of the control *)
(* thread is atomic with respect to the other handlers of the control      *)
(* thread, but not with respect to the worker context: wherever a handler  *)
(* writes the ledger file it is split at the point where the file has been *)
(* opened for writing (and is therefore empty) and not yet dumped.         *)
(***************************************************************************)
EXTENDS Integers, Sequences, FiniteSets, TLC

VARIABLES
    games,              \* self.games: the catalog, a sequence of title ids
    local_games_cache,  \* self.local_games_cache: the LocalGame list last installed
    proc,               \* self.proc: the Popen handle, or None
    running_game_id,    \* self.running_game_id
    tick_count,         \* self.tick_count
    start_time,         \* backend_client's session start
    ledger_file,        \* game_times.json on disk
    ledger_dir,         \* whether the directory of game_times.json exists
    ctl,                \* position of the control thread inside a handler
    local_tasks,        \* pending _update_local_games tasks
    time_tasks,         \* _update_all_game_times tasks
    cycles_done,        \* whether an _update_local_games task has completed
    tick_error,         \* exception that left the last call of tick, or "none"
    inc_log,            \* the calls of _update_game_time made by LedgerSpec
    host,               \* what the host does in this run: how many ticks it
                        \* delivers and how many _update_local_games tasks
                        \* it lets pend when it ticks
    credited,           \* per title, the durations of the completed increments
    recon               \* the snapshots taken and the notifications forwarded
                        \* by the _update_local_games tasks

vars == <<games, local_games_cache, proc, running_game_id, tick_count,
          start_time, ledger_file, ledger_dir, ctl, local_tasks, time_tasks,
          cycles_done, tick_error, inc_log, host, credited, recon>>

---------------------------------------------------------------------------
\* Bounds of the model.

\* Title ids the catalog collaborator and the launch requests range over.
Titles == {"1", "2"}

\* Catalogs get_owned_games may install in self.games (it is empty after
\* construction).
Catalogs == {<<"1">>, <<"1", "2">>}

\* Clock readings are 0..MaxTime; a later reading may be smaller (clock skew).
MaxTime == 1

\* The host invokes tick until tick_count has reached host.ticks, and not
\* while host.pending _update_local_games tasks are pending.  Spec runs with
\* MaxTicks and MaxPending, ReconSpec with MaxTicks and MaxOverlap, RaceSpec
\* with MaxRaceTicks and MaxPending.
MaxTicks == 5

MaxPending == 1

MaxOverlap == 2

MaxRaceTicks == 10

\* A session is not closed once it would take a total past MaxTotal.
MaxTotal == 2

---------------------------------------------------------------------------
\* Program constants.

\* tick schedules _update_all_game_times when tick_count % 5 = 0.
RefreshEvery == 5

\* JSON null / Python None in last_time_played.
Null == -1

\* LocalGameState.Installed
Installed == "Installed"

\* self.proc = None
NoProc == [held |-> FALSE, game |-> "", exited |-> FALSE, launched |-> 0]

\* The empty JSON object.
EmptyLedger == [t \in {} |-> 0]

Absent == [st |-> "absent", data |-> EmptyLedger]

Malformed == [st |-> "malformed", data |-> EmptyLedger]

\* The file between open(path, "w") and the end of json.dump: it exists and
\* holds no complete JSON document.
Truncated == [st |-> "truncated", data |-> EmptyLedger]

Present(data) == [st |-> "ok", data |-> data]

Range(s) == {s[i] : i \in 1..Len(s)}

NameOf(id) == "Game " \o id

\* The dict built at lines 112-113: one zero record per title of the catalog.
SeedData(catalog) ==
    [id \in Range(catalog) |->
        [name |-> NameOf(id), time_played |-> 0, last_time_played |-> Null]]

\* Lines 122-126: the GameTime objects built from the parsed file.
ParseGameTimes(data) ==
    [id \in DOMAIN data |->
        [game_id |-> id,
         time_played |-> data[id].time_played,
         last_time_played |-> data[id].last_time_played]]

---------------------------------------------------------------------------
\* BackendClient (backend.py)

\* _get_session_duration: end_time - start_time, never negative.
get_session_duration(start, end) == IF end >= start THEN end - start ELSE 0

\* _get_state_changes(old_list, new_list): the entries of new_list whose
\* (id, state) pair old_list does not hold, in the order of new_list.
get_state_changes(old_list, new_list) ==
    SelectSeq(new_list, LAMBDA e : e \notin Range(old_list))

---------------------------------------------------------------------------
\* One execution of _get_games_times_dict, by the control thread
\* (prepare_game_times_context) or in the worker context
\* (_update_all_game_times).  pc is the next file operation.

NoCall == [pc |-> "none", found |-> FALSE, data |-> EmptyLedger,
           saw |-> "none", result |-> EmptyLedger, err |-> "none", born |-> 0]

NewCall(pc) == [NoCall EXCEPT !.pc = pc]

\* Line 110: os.path.exists(path).
GtdExists(c) ==
    [call |-> IF ledger_file.st = "absent"
              THEN [c EXCEPT !.pc = "makedirs", !.found = FALSE]
              ELSE [c EXCEPT !.pc = "read", !.found = TRUE],
     file |-> ledger_file, dir |-> ledger_dir]

\* os.makedirs(..., exist_ok=True): an existing directory is no error.
GtdMakedirsExistOk(c) ==
    [call |-> [c EXCEPT !.pc = "open"], file |-> ledger_file, dir |-> TRUE]

\* Line 111: os.makedirs(os.path.dirname(path)) raises FileExistsError when
\* the directory exists.
GtdMakedirs(c) ==
    IF ledger_dir
    THEN [call |-> [c EXCEPT !.pc = "failed", !.err = "FileExistsError"],
          file |-> ledger_file, dir |-> ledger_dir]
    ELSE [call |-> [c EXCEPT !.pc = "open"],
          file |-> ledger_file, dir |-> TRUE]

\* Lines 112-115: build the defaults from self.games, open(path, "w").
GtdOpen(c) ==
    [call |-> [c EXCEPT !.pc = "dump", !.data = SeedData(games)],
     file |-> Truncated, dir |-> ledger_dir]

\* Line 116: json.dump and the close of the file.
GtdDump(c) ==
    [call |-> [c EXCEPT !.pc = "read", !.data = EmptyLedger],
     file |-> Present(c.data), dir |-> ledger_dir]

\* A file that does not parse is replaced by the defaults.
GtdReadReseed(c) ==
    IF ledger_file.st \in {"ok", "absent"}
    THEN [call |-> IF ledger_file.st = "ok"
                   THEN [c EXCEPT !.pc = "parsed", !.saw = "ok",
                                  !.result = ParseGameTimes(ledger_file.data)]
                   ELSE [c EXCEPT !.pc = "failed", !.saw = "absent",
                                  !.err = "FileNotFoundError"],
          file |-> ledger_file, dir |-> ledger_dir]
    ELSE [call |-> [c EXCEPT !.pc = "parsed", !.saw = ledger_file.st,
                             !.result = ParseGameTimes(SeedData(games))],
          file |-> Present(SeedData(games)), dir |-> ledger_dir]

\* Lines 119-128: open, json.load, build the GameTime dict.
GtdRead(c) ==
    [call |-> CASE ledger_file.st = "ok" ->
                     [c EXCEPT !.pc = "parsed", !.saw = "ok",
                               !.result = ParseGameTimes(ledger_file.data)]
                [] ledger_file.st = "absent" ->
                     [c EXCEPT !.pc = "failed", !.saw = "absent",
                               !.err = "FileNotFoundError"]
                [] OTHER ->
                     [c EXCEPT !.pc = "failed", !.saw = ledger_file.st,
                               !.err = "JSONDecodeError"],
     file |-> ledger_file, dir |-> ledger_dir]

GtdPcs == {"exists", "makedirs", "open", "dump", "read"}

\* The call has returned its dict (parsed) or raised (failed).
Returned(c) == c.pc \in {"parsed", "failed"}

get_games_times_dict(c) ==
    CASE c.pc = "exists"   -> GtdExists(c)
      [] c.pc = "makedirs" -> GtdMakedirs(c)
      [] c.pc = "open"     -> GtdOpen(c)
      [] c.pc = "dump"     -> GtdDump(c)
      [] c.pc = "read"     -> GtdRead(c)

---------------------------------------------------------------------------
\* _update_game_time

\* Lines 192-193: what open + json.load raise.
ReadError ==
    CASE ledger_file.st = "absent" -> "FileNotFoundError"
      [] ledger_file.st = "ok"     -> "none"
      [] OTHER                     -> "JSONDecodeError"

\* time_played is set to the session's duration instead of being added to.
update_game_time_overwrite(data, game_id, session_duration, last_time_played) ==
    [data EXCEPT ![game_id] =
        [@ EXCEPT !.time_played = session_duration,
                  !.last_time_played = last_time_played]]

\* Lines 195-196 on the parsed dict.  data.get(game_id) is None for a title
\* without an entry, and None.get raises AttributeError (the caller decides
\* with HasEntry before using this).
update_game_time(data, game_id, session_duration, last_time_played) ==
    [data EXCEPT ![game_id] =
        [@ EXCEPT !.time_played = @ + session_duration,
                  !.last_time_played = last_time_played]]

HasEntry(data, game_id) == game_id \in DOMAIN data

\* _check_emu_status without its try/except: self.proc.poll() on None raises
\* AttributeError out of tick.
check_emu_status_no_except(end, now) ==
    IF ~proc.held
    THEN [kind |-> "raise", err |-> "AttributeError", data |-> EmptyLedger]
    ELSE IF ~proc.exited
    THEN [kind |-> "noop", err |-> "none", data |-> EmptyLedger]
    ELSE IF ReadError # "none"
    THEN [kind |-> "raise", err |-> ReadError, data |-> EmptyLedger]
    ELSE [kind |-> "write", err |-> "none",
          data |-> update_game_time(ledger_file.data, running_game_id,
                                    get_session_duration(start_time, end), now)]

\* _check_emu_status computing the duration itself, as end - start.
check_emu_status_raw_duration(end, now) ==
    IF ~proc.held \/ ~proc.exited
    THEN [kind |-> "noop", err |-> "none", data |-> EmptyLedger]
    ELSE IF ReadError # "none"
    THEN [kind |-> "raise", err |-> ReadError, data |-> EmptyLedger]
    ELSE IF ~HasEntry(ledger_file.data, running_game_id)
    THEN [kind |-> "swallow", err |-> "none", data |-> EmptyLedger]
    ELSE [kind |-> "write", err |-> "none",
          data |-> update_game_time(ledger_file.data, running_game_id,
                                    end - start_time, now)]

\* _check_emu_status (lines 156-165) up to the point where it either returns
\* or has opened the file for writing.  end and now are the clock readings
\* of _set_session_end and of line 161.
\*   noop     proc is None (AttributeError, swallowed) or poll() is None
\*   raise    open/json.load of line 192-193 raised: propagates out of tick
\*   swallow  no entry for running_game_id: AttributeError at line 195 is
\*            caught by the except of line 164; self.proc is not reset
\*   write    data is what lines 198-199 will write
check_emu_status(end, now) ==
    IF ~proc.held \/ ~proc.exited
    THEN [kind |-> "noop", err |-> "none", data |-> EmptyLedger]
    ELSE IF ReadError # "none"
    THEN [kind |-> "raise", err |-> ReadError, data |-> EmptyLedger]
    ELSE IF ~HasEntry(ledger_file.data, running_game_id)
    THEN [kind |-> "swallow", err |-> "none", data |-> EmptyLedger]
    ELSE [kind |-> "write", err |-> "none",
          data |-> update_game_time(ledger_file.data, running_game_id,
                                    get_session_duration(start_time, end), now)]

---------------------------------------------------------------------------
Idle == ctl.pc = "idle"

\* end is the clock reading of _set_session_end while the increment of a
\* closing session is between its open and its dump.
CtlIdle == [pc |-> "idle", data |-> EmptyLedger, call |-> NoCall, end |-> 0]

\* No snapshot taken, nothing forwarded.
NoRecon == [taken |-> 0, cached |-> 0, notified |-> {}, sink |-> << >>]

\* An _update_local_games task as create_task leaves it: its snapshot is
\* still to be taken in the worker context.  born is self.tick_count at the
\* call of create_task.
NewLocalTask(born) ==
    [pc |-> "executor", new_list |-> << >>, snap |-> 0, born |-> born]

\* The state __init__ (lines 18-27) leaves, with the ledger as it finds it.
Construct ==
    /\ games = << >>
    /\ local_games_cache = << >>
    /\ proc = NoProc
    /\ running_game_id = ""
    /\ tick_count = 0
    /\ start_time = 0
    /\ \/ ledger_file = Absent /\ ledger_dir \in BOOLEAN
       \/ ledger_file = Malformed /\ ledger_dir = TRUE
    /\ ctl = CtlIdle
    /\ local_tasks = << NewLocalTask(0) >>
    /\ time_tasks = << >>
    /\ cycles_done = FALSE
    /\ tick_error = "none"
    /\ inc_log = << >>
    /\ credited = [id \in Titles |-> 0]
    /\ recon = NoRecon

Init ==
    /\ Construct
    /\ host = [ticks |-> MaxTicks, pending |-> MaxPending]

----------------------------------------------------------------------------
\* get_owned_games (lines 204-224)
get_owned_games ==
    /\ Idle
    /\ \E c \in Catalogs : games' = c
    /\ recon' = [recon EXCEPT !.notified = @ \cap Range(games')]
    /\ UNCHANGED <<local_games_cache, proc, running_game_id, tick_count,
                   start_time, ledger_file, ledger_dir, ctl, local_tasks,
                   time_tasks, cycles_done, tick_error, inc_log,
                   host, credited>>

\* launch_game (lines 46-55) with _launch_game (lines 58-79).  spawned is
\* whether subprocess.Popen returned a handle (it raises OSError otherwise).
launch_game(game_id, now, spawned) ==
    /\ Idle
    /\ running_game_id' = game_id
    /\ IF game_id \in Range(games)
       THEN IF spawned
            THEN /\ proc' = [held |-> TRUE, game |-> game_id,
                             exited |-> FALSE, launched |-> now]
                 /\ start_time' = now
            ELSE UNCHANGED <<proc, start_time>>
       ELSE /\ start_time' = now
            /\ UNCHANGED proc
    /\ UNCHANGED <<games, local_games_cache, tick_count, ledger_file,
                   ledger_dir, ctl, local_tasks, time_tasks, cycles_done,
                   tick_error, inc_log,
                   host, credited, recon>>

\* The emulator process ends.
ProcExit ==
    /\ proc.held /\ ~proc.exited
    /\ proc' = [proc EXCEPT !.exited = TRUE]
    /\ UNCHANGED <<games, local_games_cache, running_game_id, tick_count,
                   start_time, ledger_file, ledger_dir, ctl, local_tasks,
                   time_tasks, cycles_done, tick_error, inc_log,
                   host, credited, recon>>

\* tick, lines 149-153.
\* The refresh is decided on the count before the tick, and scheduled
\* before the reconciliation.
TickRestTestFirst ==
    /\ time_tasks' = IF tick_count % RefreshEvery = 0
                     THEN Append(time_tasks,
                                 [NewCall("sleep") EXCEPT !.born = tick_count])
                     ELSE time_tasks
    /\ local_tasks' = Append(local_tasks, NewLocalTask(tick_count))
    /\ tick_count' = tick_count + 1
    /\ tick_error' = "none"

\* Line 149, line 150, lines 152-153, in this order: each task is created
\* at the value self.tick_count has at its create_task.
TickRest ==
    /\ local_tasks' = Append(local_tasks, NewLocalTask(tick_count))
    /\ tick_count' = tick_count + 1
    /\ time_tasks' = IF (tick_count + 1) % RefreshEvery = 0
                     THEN Append(time_tasks,
                                 [NewCall("sleep") EXCEPT !.born = tick_count + 1])
                     ELSE time_tasks
    /\ tick_error' = "none"

TickEnabled ==
    /\ Idle
    /\ tick_count < host.ticks
    /\ Len(local_tasks) < host.pending

\* tick whose _check_emu_status finds no process or a live one, or swallows
\* the AttributeError of a title without an entry.
TickNoWrite ==
    /\ TickEnabled
    /\ \E end \in 0..MaxTime, now \in 0..MaxTime :
          check_emu_status(end, now).kind \in {"noop", "swallow"}
    /\ TickRest
    /\ UNCHANGED <<games, local_games_cache, proc, running_game_id,
                   start_time, ledger_file, ledger_dir, ctl, cycles_done,
                   inc_log,
                   host, credited, recon>>

\* tick whose _update_game_time raises at lines 192-193.
TickRaise ==
    /\ TickEnabled
    /\ \E end \in 0..MaxTime, now \in 0..MaxTime :
          /\ check_emu_status(end, now).kind = "raise"
          /\ tick_error' = check_emu_status(end, now).err
    /\ UNCHANGED <<games, local_games_cache, proc, running_game_id,
                   tick_count, start_time, ledger_file, ledger_dir, ctl,
                   local_tasks, time_tasks, cycles_done, inc_log,
                   host, credited, recon>>

\* tick up to line 198: the file has been read and is opened for writing.
TickOpen ==
    /\ TickEnabled
    /\ \E end \in 0..MaxTime, now \in 0..MaxTime :
          /\ check_emu_status(end, now).kind = "write"
          /\ check_emu_status(end, now).data[running_game_id].time_played <= MaxTotal
          /\ ctl' = [pc |-> "tick_dump",
                     data |-> check_emu_status(end, now).data,
                     call |-> NoCall, end |-> end]
    /\ ledger_file' = Truncated
    /\ UNCHANGED <<games, local_games_cache, proc, running_game_id,
                   tick_count, start_time, ledger_dir, local_tasks,
                   time_tasks, cycles_done, tick_error, inc_log,
                   host, credited, recon>>

\* tick from line 199: json.dump, self.proc = None, the rest of tick.
TickDump ==
    /\ ctl.pc = "tick_dump"
    /\ ledger_file' = Present(ctl.data)
    /\ proc' = NoProc
    /\ ctl' = CtlIdle
    /\ credited' = [credited EXCEPT ![running_game_id] =
                        @ + get_session_duration(start_time, ctl.end)]
    /\ TickRest
    /\ UNCHANGED <<games, local_games_cache, running_game_id, start_time,
                   ledger_dir, cycles_done, inc_log, host, recon>>

tick == TickNoWrite \/ TickRaise \/ TickOpen \/ TickDump

\* The step in which tick is invoked and runs _check_emu_status.
TickCall == TickNoWrite \/ TickRaise \/ TickOpen

\* The step in which tick returns or raises.
TickReturn == TickNoWrite \/ TickRaise \/ TickDump

\* poll() of the held handle is not None.
ExitObserved == proc.held /\ proc.exited

----------------------------------------------------------------------------
\* prepare_game_times_context (lines 90-91): _get_games_times_dict on the
\* control thread.
PrepareCall ==
    /\ Idle
    /\ ctl' = [CtlIdle EXCEPT !.pc = "gtd", !.call = NewCall("exists")]
    /\ UNCHANGED <<games, local_games_cache, proc, running_game_id,
                   tick_count, start_time, ledger_file, ledger_dir,
                   local_tasks, time_tasks, cycles_done, tick_error,
                   inc_log,
                   host, credited, recon>>

\* One file operation of the call; after the last one the call returns its
\* dict, or raises, and the control thread is free again.
PrepareStep ==
    /\ ctl.pc = "gtd"
    /\ ctl.call.pc \in GtdPcs
    /\ LET o == get_games_times_dict(ctl.call) IN
          /\ ctl' = IF Returned(o.call) THEN CtlIdle
                    ELSE [ctl EXCEPT !.call = o.call]
          /\ ledger_file' = o.file
          /\ ledger_dir' = o.dir
    /\ UNCHANGED <<games, local_games_cache, proc, running_game_id,
                   tick_count, start_time, local_tasks, time_tasks,
                   cycles_done, tick_error, inc_log,
                   host, credited, recon>>

----------------------------------------------------------------------------
\* _update_all_game_times (lines 177-182)

\* Line 178-180: the sleep is over, the executor starts the call.
RefreshWake(i) ==
    /\ Idle
    /\ time_tasks[i].pc = "sleep"
    /\ time_tasks' = [time_tasks EXCEPT ![i].pc = "exists"]
    /\ UNCHANGED <<games, local_games_cache, proc, running_game_id,
                   tick_count, start_time, ledger_file, ledger_dir, ctl,
                   local_tasks, cycles_done, tick_error, inc_log,
                   host, credited, recon>>

\* One file operation of _get_games_times_dict in the worker context.
RefreshStep(i) ==
    /\ time_tasks[i].pc \in GtdPcs
    /\ LET o == get_games_times_dict(time_tasks[i]) IN
          /\ time_tasks' = [time_tasks EXCEPT ![i] = o.call]
          /\ ledger_file' = o.file
          /\ ledger_dir' = o.dir
    /\ UNCHANGED <<games, local_games_cache, proc, running_game_id,
                   tick_count, start_time, ctl, local_tasks, cycles_done,
                   tick_error, inc_log,
                   host, credited, recon>>

\* Lines 181-182: back on the control thread, every GameTime of the result
\* goes to update_game_time.
RefreshForward(i) ==
    /\ Idle
    /\ time_tasks[i].pc = "parsed"
    /\ time_tasks' = [time_tasks EXCEPT ![i].pc = "done",
                                        ![i].result = EmptyLedger]
    /\ UNCHANGED <<games, local_games_cache, proc, running_game_id,
                   tick_count, start_time, ledger_file, ledger_dir, ctl,
                   local_tasks, cycles_done, tick_error, inc_log,
                   host, credited, recon>>

update_all_game_times ==
    \E i \in 1..Len(time_tasks) :
        RefreshWake(i) \/ RefreshStep(i) \/ RefreshForward(i)

----------------------------------------------------------------------------
\* _update_local_games (lines 168-174)

\* _local_games_list (lines 131-144) in the worker context.
local_games_list ==
    [i \in 1..Len(games) |->
        [game_id |-> games[i], local_game_state |-> Installed]]

\* The ids of a list of LocalGame objects, in its order.
IdsOf(list) == [i \in 1..Len(list) |-> list[i].game_id]

RemoveAt(s, i) == SubSeq(s, 1, i - 1) \o SubSeq(s, i + 1, Len(s))

\* Line 170: the executor runs _local_games_list.  snap numbers the
\* snapshots in the order in which they are taken.
LocalGamesSnapshot(i) ==
    /\ local_tasks[i].pc = "executor"
    /\ local_tasks' = [local_tasks EXCEPT
                         ![i] = [@ EXCEPT !.pc = "resume",
                                          !.new_list = local_games_list,
                                          !.snap = recon.taken + 1]]
    /\ recon' = [recon EXCEPT !.taken = @ + 1]
    /\ UNCHANGED <<games, local_games_cache, proc, running_game_id,
                   tick_count, start_time, ledger_file, ledger_dir, ctl,
                   time_tasks, cycles_done, tick_error, inc_log,
                   host, credited>>

\* What a cycle leaves in recon: the number of the snapshot now cached, the
\* notifications it forwarded, and the titles notified that have been in the
\* catalog ever since.
Forwarded(snap, notify_list) ==
    [recon EXCEPT !.cached = snap,
                  !.sink = notify_list,
                  !.notified = (@ \cup Range(IdsOf(notify_list))) \cap Range(games)]

\* The cache is assigned the notify_list instead of the new snapshot.
LocalGamesResumeCacheDiff(i) ==
    /\ Idle
    /\ local_tasks[i].pc = "resume"
    /\ LET notify_list ==
               get_state_changes(local_games_cache, local_tasks[i].new_list)
       IN  /\ local_games_cache' = notify_list
           /\ recon' = Forwarded(local_tasks[i].snap, notify_list)
    /\ local_tasks' = RemoveAt(local_tasks, i)
    /\ cycles_done' = TRUE
    /\ UNCHANGED <<games, proc, running_game_id, tick_count, start_time,
                   ledger_file, ledger_dir, ctl, time_tasks, tick_error,
                   inc_log, host, credited>>

\* Lines 171-174 on the control thread: the diff against the cache, the
\* cache replaced, every entry of notify_list forwarded.
LocalGamesResume(i) ==
    /\ Idle
    /\ local_tasks[i].pc = "resume"
    /\ LET notify_list ==
               get_state_changes(local_games_cache, local_tasks[i].new_list)
       IN  /\ local_games_cache' = local_tasks[i].new_list
           /\ recon' = Forwarded(local_tasks[i].snap, notify_list)
    /\ local_tasks' = RemoveAt(local_tasks, i)
    /\ cycles_done' = TRUE
    /\ UNCHANGED <<games, proc, running_game_id, tick_count, start_time,
                   ledger_file, ledger_dir, ctl, time_tasks, tick_error,
                   inc_log, host, credited>>

update_local_games ==
    \E i \in 1..Len(local_tasks) : LocalGamesSnapshot(i) \/ LocalGamesResume(i)

----------------------------------------------------------------------------
Next ==
    \/ get_owned_games
    \/ \E id \in Titles, now \in 0..MaxTime, ok \in BOOLEAN : launch_game(id, now, ok)
    \/ ProcExit
    \/ tick
    \/ PrepareCall
    \/ PrepareStep
    \/ update_all_game_times
    \/ update_local_games

Spec == Init /\ [][Next]_vars

----------------------------------------------------------------------------
\* _update_game_time called on its own, on any well-formed ledger.

\* The well-formed ledgers over Titles.
Ledgers ==
    UNION {{[id \in D |-> [name |-> NameOf(id),
                           time_played |-> total[id],
                           last_time_played |-> last[id]]] :
               total \in [D -> 0..MaxTotal],
               last \in [D -> {Null} \cup 0..MaxTime]} : D \in SUBSET Titles}

InitLedger ==
    /\ games = << >>
    /\ local_games_cache = << >>
    /\ proc = NoProc
    /\ running_game_id = ""
    /\ tick_count = 0
    /\ start_time = 0
    /\ \E d \in Ledgers : ledger_file = Present(d)
    /\ ledger_dir = TRUE
    /\ ctl = CtlIdle
    /\ local_tasks = << NewLocalTask(0) >>
    /\ time_tasks = << >>
    /\ cycles_done = FALSE
    /\ tick_error = "none"
    /\ inc_log = << >>
    /\ credited = [id \in Titles |-> 0]
    /\ recon = NoRecon
    /\ host = [ticks |-> MaxTicks, pending |-> MaxPending]

\* _update_game_time(game_id, session_duration, last_time_played), lines
\* 185-201, on a file that exists: read, update, write.  inc_log records the
\* call, the dict it read and whether it raised.
Increment(game_id, session_duration, last_time_played) ==
    /\ Len(inc_log) < 2
    /\ ledger_file.st = "ok"
    /\ ledger_file' =
          IF HasEntry(ledger_file.data, game_id)
          THEN Present(update_game_time(ledger_file.data, game_id,
                                        session_duration, last_time_played))
          ELSE ledger_file
    /\ inc_log' = Append(inc_log,
                         [game_id |-> game_id,
                          session_duration |-> session_duration,
                          last_time_played |-> last_time_played,
                          before |-> ledger_file.data,
                          raised |-> ~HasEntry(ledger_file.data, game_id)])
    /\ UNCHANGED <<games, local_games_cache, proc, running_game_id,
                   tick_count, start_time, ledger_dir, ctl, local_tasks,
                   time_tasks, cycles_done, tick_error,
                   host, credited, recon>>

NextLedger ==
    \E id \in Titles, d \in 0..MaxTime, t \in 0..MaxTime : Increment(id, d, t)

LedgerSpec == InitLedger /\ [][NextLedger]_vars

----------------------------------------------------------------------------
\* The reconciliation alone: no session is ever launched, and the host lets
\* MaxOverlap _update_local_games tasks pend.  The refresh tasks stay in
\* their sleep.

InitRecon ==
    /\ Construct
    /\ host = [ticks |-> MaxTicks, pending |-> MaxOverlap]

NextRecon ==
    \/ get_owned_games
    \/ TickNoWrite
    \/ update_local_games

ReconSpec == InitRecon /\ [][NextRecon]_vars

----------------------------------------------------------------------------
\* One title, whose emulator always starts, and MaxRaceTicks ticks: the
\* refresh that the fifth tick schedules runs in the worker context while
\* later ticks close sessions.  The event loop runs every task and every
\* handler it has started to its end, and the host keeps ticking.

InitRace ==
    /\ Construct
    /\ host = [ticks |-> MaxRaceTicks, pending |-> MaxPending]

NextRace ==
    \/ get_owned_games /\ games' = <<"1">>
    \/ \E now \in 0..MaxTime : launch_game("1", now, TRUE)
    \/ ProcExit
    \/ tick
    \/ PrepareCall
    \/ PrepareStep
    \/ update_all_game_times
    \/ update_local_games

RaceSpec ==
    /\ InitRace
    /\ [][NextRace]_vars
    /\ SF_vars(tick)
    /\ SF_vars(PrepareStep)
    /\ SF_vars(update_all_game_times)
    /\ SF_vars(update_local_games)


----------------------------------------------------------------------------
\* Properties.

\* C1: a launch request received while a process handle is held leaves
\* running_game_id, the handle and the session start unchanged.
C1_LaunchWhileRunningRejected ==
    [][(proc.held /\ \E id \in Titles, now \in 0..MaxTime, ok \in BOOLEAN :
                        launch_game(id, now, ok))
        => UNCHANGED <<running_game_id, proc, start_time>>]_vars

\* C2: when a tick that observed the exit of the session's process returns,
\* no process handle is held, whatever the ledger file is.
C2_ExitObservedEndsIdle ==
    [][(TickReturn /\ ExitObserved) => ~proc'.held]_vars

\* C3: a session that closes for a title without an entry in the existing
\* ledger leaves an entry whose total is the session's duration and whose
\* last_time_played is the close time.
C3_MissingTotalIsZero ==
    [][(/\ TickReturn
        /\ ExitObserved
        /\ proc.game = running_game_id
        /\ ledger_file.st = "ok"
        /\ ~HasEntry(ledger_file.data, running_game_id))
        => /\ ledger_file'.st = "ok"
           /\ HasEntry(ledger_file'.data, running_game_id)
           /\ \E end \in 0..MaxTime, now \in 0..MaxTime :
                 /\ ledger_file'.data[running_game_id].time_played
                       = get_session_duration(start_time, end)
                 /\ ledger_file'.data[running_game_id].last_time_played = now]_vars

\* C4: two successive increments d1, d2 of a title with an entry of total d0
\* leave its total at d0 + d1 + d2 and its last_time_played at the second
\* timestamp, and every other record as it was.
C4_IncrementAdditive ==
    (/\ Len(inc_log) = 2
     /\ inc_log[1].game_id = inc_log[2].game_id
     /\ HasEntry(inc_log[1].before, inc_log[1].game_id))
    => LET id == inc_log[1].game_id
           before == inc_log[1].before
           after == ledger_file.data
       IN  /\ ~inc_log[1].raised /\ ~inc_log[2].raised
           /\ ledger_file.st = "ok"
           /\ DOMAIN after = DOMAIN before
           /\ after[id].time_played =
                 before[id].time_played + inc_log[1].session_duration
                                        + inc_log[2].session_duration
           /\ after[id].last_time_played = inc_log[2].last_time_played
           /\ after[id].name = before[id].name
           /\ \A o \in DOMAIN before \ {id} : after[o] = before[o]

\* Two increments by positive durations of a title that had a positive
\* total, beside another title's record.
C4_Witness ==
    /\ Len(inc_log) = 2
    /\ inc_log[1].game_id = "1" /\ inc_log[2].game_id = "1"
    /\ DOMAIN inc_log[1].before = {"1", "2"}
    /\ inc_log[1].before["1"].time_played > 0
    /\ inc_log[1].before["2"].time_played > 0
    /\ inc_log[1].session_duration > 0 /\ inc_log[2].session_duration > 0
    /\ inc_log[2].last_time_played # inc_log[1].last_time_played

\* C5: prepare_game_times_context on an absent file creates the file with
\* one zero record per title of the catalog and returns those records,
\* whether or not the directory exists; on a well-formed file it returns the
\* file's records and leaves the file as it is.
C5_LoadOrInit ==
    [][(PrepareStep /\ Returned(get_games_times_dict(ctl.call).call))
        => LET ret == get_games_times_dict(ctl.call).call IN
           /\ ~ctl.call.found
                 => /\ ret.pc = "parsed"
                    /\ ledger_file' = Present(SeedData(games))
                    /\ ret.result = ParseGameTimes(SeedData(games))
           /\ (ctl.call.found /\ ledger_file.st = "ok")
                 => /\ ret.pc = "parsed"
                    /\ ret.result = ParseGameTimes(ledger_file.data)
                    /\ ledger_file' = ledger_file]_vars

\* C6 as stated: no step of the bulk refresh changes the ledger file, and a
\* refresh that finds no file yields the empty mapping.
C6_RefreshNeverCreates ==
    [][\A i \in 1..Len(time_tasks) :
          RefreshStep(i)
          => /\ ledger_file' = ledger_file
             /\ (time_tasks[i].pc = "exists" /\ ledger_file.st = "absent")
                   => /\ time_tasks'[i].pc = "parsed"
                      /\ time_tasks'[i].result = EmptyLedger]_vars

\* C6 amended: the bulk refresh never changes a ledger file that exists
\* when it acts, other than to complete the file it is itself creating.
\* Finding no file it calls makedirs, which fails with FileExistsError when
\* the directory exists; otherwise it creates the file with zero records
\* only.  The mapping it yields is the records of the file as read.
C6_RefreshCreatesOnlyWhenAbsent ==
    [][\A i \in 1..Len(time_tasks) :
          RefreshStep(i)
          => LET c == time_tasks[i]
                 c2 == time_tasks'[i]
             IN  /\ ledger_file' # ledger_file
                       => \/ /\ c.pc = "open"
                             /\ ledger_file.st = "absent"
                             /\ ledger_file' = Truncated
                          \/ /\ c.pc = "dump"
                             /\ ledger_file = Truncated
                             /\ ledger_file'.st = "ok"
                             /\ \A id \in DOMAIN ledger_file'.data :
                                   /\ ledger_file'.data[id].time_played = 0
                                   /\ ledger_file'.data[id].last_time_played = Null
                 /\ (c.pc = "exists" /\ ledger_file.st = "absent")
                       => c2.pc = "makedirs"
                 /\ c.pc = "makedirs"
                       => /\ ~c.found
                          /\ ledger_dir => (c2.pc = "failed" /\ c2.err = "FileExistsError")
                          /\ ~ledger_dir => (c2.pc = "open" /\ ledger_dir')
                 /\ c2.pc = "parsed"
                       => c2.result = ParseGameTimes(ledger_file.data)]_vars

\* A refresh that found no file has created it, read it and forwarded its
\* records.
C6_Witness ==
    \E i \in 1..Len(time_tasks) :
        /\ time_tasks[i].pc = "done"
        /\ ~time_tasks[i].found
        /\ ledger_file.st = "ok"
        /\ DOMAIN ledger_file.data # {}

\* C7: once an _update_local_games cycle has completed, every title of the
\* catalog that cycle last reported has an entry in the (well-formed) ledger.
C7_CatalogHasEntries ==
    (cycles_done /\ IdsOf(local_games_cache) = games /\ ledger_file.st = "ok")
    => \A id \in Range(games) : HasEntry(ledger_file.data, id)

\* C8: no read of the bulk refresh sees the ledger file between its being
\* opened for writing and the end of the dump.
C8_NoPartialRead ==
    \A i \in 1..Len(time_tasks) : time_tasks[i].saw # "truncated"

\* C9: a tick whose _check_emu_status finds no process, or a live one, raises
\* nothing and leaves the ledger file, the handle, running_game_id and the
\* session start unchanged.
C9_IdleCheckNoOp ==
    [][(TickCall /\ ~ExitObserved)
        => /\ UNCHANGED <<ledger_file, ledger_dir, proc, running_game_id,
                          start_time>>
           /\ tick_error' = "none"
           /\ tick_count' = tick_count + 1]_vars

\* Two ticks have run and no launch was ever requested.
C9_Witness ==
    /\ tick_count >= 2
    /\ running_game_id = ""
    /\ proc = NoProc

\* C10: every tick that returns has scheduled one _update_local_games task
\* and advanced tick_count by one.
C10_TickAlwaysSchedules ==
    [][TickReturn
        => /\ tick_count' = tick_count + 1
           /\ Len(local_tasks') = Len(local_tasks) + 1]_vars

\* C11: no step lowers a title's total.  The increment of a closing session
\* writes, for every title of the file it read, a total that is not below
\* the one it read, also when the clock reading at the close is earlier
\* than the one at the launch; nothing else changes a well-formed file.
C11_TotalNeverDecreases ==
    [][/\ \A id \in Titles : credited'[id] >= credited[id]
       /\ TickOpen
             => \A id \in DOMAIN ledger_file.data :
                   /\ id \in DOMAIN ctl'.data
                   /\ ctl'.data[id].time_played
                         >= ledger_file.data[id].time_played
       /\ TickDump => ledger_file' = Present(ctl.data)
       /\ (ledger_file.st = "ok" /\ ledger_file' # ledger_file) => TickOpen]_vars

\* A session of a title with a positive total is closing with a clock
\* reading earlier than its start, and the total to be written is the old one.
C11_Witness ==
    /\ ctl.pc = "tick_dump"
    /\ ctl.end < start_time
    /\ proc.game = running_game_id
    /\ credited[running_game_id] > 0
    /\ ctl.data[running_game_id].time_played = credited[running_game_id]

\* What _get_games_times_dict does by its step from c to c2 on a malformed
\* file: it finds the file, and its read raises JSONDecodeError.
FailsOnMalformed(c, c2) ==
    /\ c.pc \in {"exists", "read"}
    /\ c.pc = "exists" => (c2.pc = "read" /\ c2.found)
    /\ c.pc = "read" => (c2.pc = "failed" /\ c2.err = "JSONDecodeError")

LedgerTotal(id) ==
    IF HasEntry(ledger_file.data, id) THEN ledger_file.data[id].time_played ELSE 0

\* The ledger file holds for some title less than the completed increments
\* have added.
LostUpdate ==
    /\ ledger_file.st = "ok"
    /\ \E id \in Titles : LedgerTotal(id) < credited[id]

C14_ExitCreditedOnce ==
    [][/\ (TickReturn /\ ExitObserved)
             => /\ TickDump
                /\ ~proc'.held
                /\ credited' = [credited EXCEPT ![proc.game] =
                        @ + get_session_duration(proc.launched, ctl.end)]
       /\ credited' # credited => (TickDump /\ ExitObserved)]_vars

\* The last entry of a sequence.
Last(s) == s[Len(s)]

\* C15: a tick that returns has scheduled a refresh exactly when the count
\* it leaves is a positive multiple of 5.  The session check comes first: a
\* tick whose check raises, or is still writing the ledger, has scheduled
\* nothing.  The reconciliation is scheduled next, before the count
\* advances, and the refresh after it; nothing but a tick schedules a task.
C15_RefreshEveryFifthTick ==
    [][/\ (TickNoWrite \/ TickDump)
             => /\ tick_count' = tick_count + 1
                /\ Len(local_tasks') = Len(local_tasks) + 1
                /\ Last(local_tasks').born = tick_count
                /\ IF tick_count' > 0 /\ tick_count' % 5 = 0
                   THEN /\ Len(time_tasks') = Len(time_tasks) + 1
                        /\ Last(time_tasks').pc = "sleep"
                        /\ Last(time_tasks').born = tick_count'
                   ELSE time_tasks' = time_tasks
       /\ (TickRaise \/ TickOpen)
             => UNCHANGED <<local_tasks, time_tasks, tick_count>>
       /\ Len(time_tasks') # Len(time_tasks) => (TickNoWrite \/ TickDump)]_vars

\* The tenth tick has returned in a run that closed a session of positive
\* duration: two refreshes are scheduled, by the fifth and the tenth tick.
C15_Witness ==
    /\ tick_count = 10
    /\ Len(time_tasks) = 2
    /\ time_tasks[1].born = 5 /\ time_tasks[2].born = 10
    /\ credited["1"] > 0

\* C16: what a reconciliation cycle forwards are entries of the snapshot it
\* computed, each with state Installed; it forwards nothing for a title of
\* the cache that the snapshot lacks; and it leaves the cache equal to the
\* snapshot.
C16_NotificationsFromSnapshot ==
    [][\A i \in 1..Len(local_tasks) :
          LocalGamesResume(i)
          => LET new_list == local_tasks[i].new_list
                 sent == recon'.sink
             IN  /\ \A k \in 1..Len(sent) :
                       /\ sent[k].local_game_state = Installed
                       /\ sent[k] \in Range(new_list)
                 /\ \A id \in Range(IdsOf(local_games_cache))
                                 \ Range(IdsOf(new_list)) :
                       id \notin Range(IdsOf(sent))
                 /\ local_games_cache' = new_list]_vars

\* A cycle has forwarded notifications, and a task is about to install a
\* snapshot that lacks a title of the cache.
C16_Witness ==
    /\ recon.sink # << >>
    /\ \E i \in 1..Len(local_tasks) :
          /\ local_tasks[i].pc = "resume"
          /\ Range(local_games_cache) \ Range(local_tasks[i].new_list) # {}

\* C17: with overlapping reconciliation tasks, no cycle notifies a title
\* that was notified before and has been in the catalog ever since, and no
\* cycle replaces the cache by a different snapshot taken before the one
\* the cache holds.
C17_OverlapKeepsCacheFresh ==
    [][\A i \in 1..Len(local_tasks) :
          LocalGamesResume(i)
          => /\ \A id \in Range(IdsOf(recon'.sink)) : id \notin recon.notified
             /\ \/ local_tasks[i].snap >= recon.cached
                \/ local_tasks[i].new_list = local_games_cache]_vars

\* C18: while a handle is held, running_game_id is the title its process
\* was spawned for and the session start is the time of that launch; a
\* launch request for a title that is not in the catalog, made while a
\* handle is held, leaves the handle, running_game_id and the session start
\* as they are.
C18_SessionMatchesHandle ==
    [][/\ proc'.held
             => /\ running_game_id' = proc'.game
                /\ start_time' = proc'.launched
       /\ (/\ proc.held
           /\ \E id \in Titles \ Range(games), now \in 0..MaxTime, ok \in BOOLEAN :
                 launch_game(id, now, ok))
             => UNCHANGED <<proc, running_game_id, start_time>>]_vars

=============================================================================
